---- MODULE Spec2Model ----
(***************************************************************************)
(* Gateway supervision and R2 persistence of moltworker.                   *)
(*                                                                         *)
(* The repository holds several versions of the same logic, and the model  *)
(* holds each of them as an operation a caller may invoke:                 *)
(*   - findExistingMoltbotProcess, mountR2Storage, ensureMoltbotGateway    *)
(*     and syncToR2 of the gateway file, lines 91-299;                     *)
(*   - the earlier findExistingMoltbotProcess, ensureMoltbotGateway and    *)
(*     syncToR2 of the gateway file, lines 1-89 (the ...V1 definitions);   *)
(*   - mountR2Storage as exported by src/gateway/r2.ts.                    *)
(*                                                                         *)
(* Every await of the code is a step of its own: the sandbox (process      *)
(* registry, filesystem, mount table) is shared state that other           *)
(* invocations and the environment may change between two awaits.          *)
(***************************************************************************)
EXTENDS Integers, Sequences, FiniteSets, TLC

\* ------------------------------------------------------------------ bounds

\* Calls a caller makes in one behaviour.
MaxCalls == 2

\* Processes startProcess creates in one behaviour (pids are 1..MaxLaunch).
MaxLaunch == 2

\* Invocations that may be in flight at once in SpecConcurrent.
NInv == 2

\* --------------------------------------------------------------- constants

MOLTBOT_PORT == 18789

\* JavaScript's undefined, for an absent configuration value or result field.
Undef == "undefined"

\* JavaScript truthiness of a string-or-undefined value.
Truthy(v) == v # Undef /\ v # ""

\* ----------------------------------------------------------- configuration

\* MoltbotEnv: the bucket binding is an object or absent; the others are
\* strings, absent, or empty.
BucketVals == {Undef, "bucket"}
NameVals == {Undef, "", "demo"}
AnthropicVals == {Undef, "", "sk-ant"}
OpenAIVals == {Undef, "", "sk-oai"}
TokenVals == {Undef, "", "tok"}

MoltbotEnv ==
  [MOLTBOT_BUCKET : BucketVals, R2_BUCKET_NAME : NameVals,
   ANTHROPIC_API_KEY : AnthropicVals, OPENAI_API_KEY : OpenAIVals,
   MOLTBOT_GATEWAY_TOKEN : TokenVals]

\* The credentials do not steer any branch but the assembly of the process
\* environment: Spec varies the storage settings with one set of credentials
\* (the Anthropic key alone), SpecEnv varies every credential.
OnlyAnthropic(c) ==
  /\ c.ANTHROPIC_API_KEY = "sk-ant"
  /\ c.OPENAI_API_KEY = Undef
  /\ c.MOLTBOT_GATEWAY_TOKEN = Undef

StorageConfigs == {c \in MoltbotEnv : OnlyAnthropic(c)}

BothOrNeither(c) ==
  \/ c.MOLTBOT_BUCKET = "bucket" /\ c.R2_BUCKET_NAME = "demo"
  \/ c.MOLTBOT_BUCKET = Undef /\ c.R2_BUCKET_NAME = Undef

CredentialConfigs == {c \in MoltbotEnv : BothOrNeither(c)}

\* ------------------------------------------------------------ command text

\* A string the code searches is a sequence of tokens; includes() is
\* containment of a contiguous run of tokens.
Includes(s, sub) ==
  \E k \in 1..(Len(s) - Len(sub) + 1) : SubSeq(s, k, k + Len(sub) - 1) = sub

LauncherCommand == <<"/usr/local/bin/", "start-", "openclaw", ".sh">>
OtherCommand == <<"node", "/app/server.js">>

\* The predicate of processes.find in findExistingMoltbotProcess.
\* An absent command or args (the ?. of the code) is the empty sequence.
IsMoltbot(p) ==
  \/ Includes(p.command, <<"start-", "openclaw", ".sh">>)
  \/ Includes(p.command, <<"openclaw">>)
  \/ \E a \in 1..Len(p.args) : Includes(p.args[a], <<"openclaw">>)

\* The predicate of processes.find in the earlier findExistingMoltbotProcess.
IsMoltbotV1(p) == Includes(p.command, <<"openclaw">>)

\* Array.find replaced by a lookup that prefers a running match.
FindIndexRunningFirst(ps) ==
  IF \E k \in 1..Len(ps) : IsMoltbot(ps[k]) /\ ps[k].status = "running"
    THEN CHOOSE k \in 1..Len(ps) : IsMoltbot(ps[k]) /\ ps[k].status = "running"
    ELSE IF \E k \in 1..Len(ps) : IsMoltbot(ps[k])
      THEN CHOOSE k \in 1..Len(ps) : IsMoltbot(ps[k])
      ELSE 0

\* Array.prototype.find: the index of the first element matching, 0 if none.
FindIndex(ps) ==
  IF \E k \in 1..Len(ps) : IsMoltbot(ps[k])
    THEN CHOOSE k \in 1..Len(ps) :
           IsMoltbot(ps[k]) /\ \A j \in 1..(k - 1) : ~IsMoltbot(ps[j])
    ELSE 0

\* What findExistingMoltbotProcess returns: {pid, status} of the first match,
\* null when nothing matches and null when listProcesses throws.
NullProc == [pid |-> 0, status |-> "null"]

\* findExistingMoltbotProcess whose catch block does not decide the result:
\* the first match of the registry is returned, rejected call or not.
FindExistingIgnoresThrow(ps, listThrows) ==
  IF FindIndex(ps) = 0 THEN NullProc
  ELSE [pid |-> ps[FindIndex(ps)].pid, status |-> ps[FindIndex(ps)].status]

FindExisting(ps, listThrows) ==
  IF listThrows THEN NullProc
  ELSE IF FindIndex(ps) = 0 THEN NullProc
  ELSE [pid |-> ps[FindIndex(ps)].pid, status |-> ps[FindIndex(ps)].status]

FindIndexV1(ps) ==
  IF \E k \in 1..Len(ps) : IsMoltbotV1(ps[k])
    THEN CHOOSE k \in 1..Len(ps) :
           IsMoltbotV1(ps[k]) /\ \A j \in 1..(k - 1) : ~IsMoltbotV1(ps[j])
    ELSE 0

FindExistingV1(ps, listThrows) ==
  IF listThrows THEN NullProc
  ELSE IF FindIndexV1(ps) = 0 THEN NullProc
  ELSE [pid |-> ps[FindIndexV1(ps)].pid, status |-> ps[FindIndexV1(ps)].status]

\* ------------------------------------------------------ process environment

BaseEnv ==
  {<<"NODE_ENV", "production">>, <<"PATH", "/usr/local/bin:/usr/bin:/bin">>,
   <<"HOME", "/root">>}

\* The env of the earlier ensureMoltbotGateway: the key is always there,
\* with the empty string when the configuration has no value.
OpenclawEnvV1(c) ==
  {<<"ANTHROPIC_API_KEY",
     IF Truthy(c.ANTHROPIC_API_KEY) THEN c.ANTHROPIC_API_KEY ELSE "">>,
   <<"NODE_ENV", "production">>}

\* openclawEnv of ensureMoltbotGateway, as a set of <<key, value>> entries.
OpenclawEnv(c) ==
  BaseEnv
    \cup (IF Truthy(c.ANTHROPIC_API_KEY)
            THEN {<<"ANTHROPIC_API_KEY", c.ANTHROPIC_API_KEY>>} ELSE {})
    \cup (IF Truthy(c.OPENAI_API_KEY)
            THEN {<<"OPENAI_API_KEY", c.OPENAI_API_KEY>>} ELSE {})
    \cup (IF Truthy(c.MOLTBOT_GATEWAY_TOKEN)
            THEN {<<"OPENCLAW_GATEWAY_TOKEN", c.MOLTBOT_GATEWAY_TOKEN>>} ELSE {})

EnvKeys(e) == {kv[1] : kv \in e}

\* The argument of sandbox.startProcess.
StartArgs(c) ==
  [command |-> LauncherCommand, env |-> OpenclawEnv(c),
   workingDirectory |-> "/root/clawd"]

\* The argument of sandbox.startProcess in the earlier ensureMoltbotGateway.
StartArgsV1(c) ==
  [command |-> LauncherCommand, env |-> OpenclawEnvV1(c),
   workingDirectory |-> Undef]

\* --------------------------------------------------------------- filesystem

\* The paths the code touches, as one record:
\*   mnt      /data/moltbot exists ("none" or "dir"), mode its permission
\*   mounted  the bucket is in the mount table at /data/moltbot
\*   sub      /data/moltbot/openclaw is a directory
\*   subin    /data/moltbot/openclaw/openclaw is a symlink to /data/moltbot/openclaw
\*   l1       /root/.openclaw: "none", a real "dir", or a "link" to /data/moltbot/openclaw
\*   l1in     /root/.openclaw/openclaw is a symlink (inside the real directory)
\*   l2       /root/clawd/data: "none" or a "link" to /data/moltbot/openclaw
\*   lfiles   the files of the real directory /root/.openclaw
\*   dfiles   the files of /data/moltbot/openclaw
InitFs ==
  [mnt |-> "none", mode |-> "755", mounted |-> FALSE, sub |-> FALSE,
   subin |-> FALSE, l1 |-> "none", l1in |-> FALSE, l2 |-> "none",
   lfiles |-> {}, dfiles |-> {}]

CmdMkdirMnt == "mkdir -p /data/moltbot"
CmdChmodMnt == "chmod 777 /data/moltbot"
CmdMkdirChmod == "mkdir -p /data/moltbot && chmod 777 /data/moltbot"
CmdMkdirSub == "mkdir -p /data/moltbot/openclaw"
CmdLn1 == "ln -sf /data/moltbot/openclaw /root/.openclaw"
CmdLn2 == "ln -sf /data/moltbot/openclaw /root/clawd/data"
CmdMountCheck == "mount | grep /data/moltbot || echo \"not mounted\""
CmdMkdirLocal == "mkdir -p /root/.openclaw"
CmdRsync == "rsync -av --delete /root/.openclaw/ /data/moltbot/openclaw/ 2>&1"
CmdRsyncV1 == "rsync -av /root/.openclaw/ /data/moltbot/openclaw/ 2>&1"

\* ln -sf TARGET NAME without -n: a NAME that is a directory, or a symlink
\* to an existing directory, is entered and the link is made inside it under
\* TARGET's base name; otherwise NAME itself is (re)made as the link.
LnInto(f, kind) ==
  IF kind = "dir" THEN "inside"
  ELSE IF kind = "link" /\ f.sub THEN "target"
  ELSE "self"

\* What a shell command does to the filesystem when it runs to the end.
ShellEffect(f, cmd) ==
  CASE cmd = CmdMkdirMnt -> [f EXCEPT !.mnt = "dir"]
    [] cmd = CmdChmodMnt ->
         IF f.mnt = "dir" THEN [f EXCEPT !.mode = "777"] ELSE f
    [] cmd = CmdMkdirChmod -> [f EXCEPT !.mnt = "dir", !.mode = "777"]
    [] cmd = CmdMkdirSub -> [f EXCEPT !.mnt = "dir", !.sub = TRUE]
    [] cmd = CmdLn1 ->
         CASE LnInto(f, f.l1) = "inside" -> [f EXCEPT !.l1in = TRUE]
           [] LnInto(f, f.l1) = "target" -> [f EXCEPT !.subin = TRUE]
           [] OTHER -> [f EXCEPT !.l1 = "link"]
    [] cmd = CmdLn2 ->
         CASE LnInto(f, f.l2) = "target" -> [f EXCEPT !.subin = TRUE]
           [] OTHER -> [f EXCEPT !.l2 = "link"]
    [] cmd = CmdMkdirLocal ->
         \* a dangling symlink makes mkdir -p fail; a link to a directory is kept
         IF f.l1 = "none" THEN [f EXCEPT !.l1 = "dir"] ELSE f
    [] cmd = CmdRsync ->
         \* the mirror of a real source directory: files and symlinks copied,
         \* extraneous entries of the destination deleted; a source that is
         \* the destination itself (through the symlink) changes nothing
         IF f.l1 = "dir" /\ f.mnt = "dir"
           THEN [f EXCEPT !.sub = TRUE, !.dfiles = f.lfiles, !.subin = f.l1in]
           ELSE f
    [] cmd = CmdRsyncV1 ->
         IF f.l1 = "dir" /\ f.mnt = "dir"
           THEN [f EXCEPT !.sub = TRUE, !.dfiles = f.dfiles \cup f.lfiles,
                          !.subin = f.subin \/ f.l1in]
           ELSE f
    [] OTHER -> f

\* The entries of /root/.openclaw as a process reading the path sees them, and
\* those of /data/moltbot/openclaw.
DurableFiles(f) ==
  IF f.sub THEN f.dfiles \cup (IF f.subin THEN {"openclaw"} ELSE {}) ELSE {}

LocalFiles(f) ==
  CASE f.l1 = "dir" -> f.lfiles \cup (IF f.l1in THEN {"openclaw"} ELSE {})
    [] f.l1 = "link" -> DurableFiles(f)
    [] OTHER -> {}

\* The copy command can run to its end: its source exists and so does the
\* parent of its destination.
CopyRuns(f) == f.l1 # "none" /\ f.mnt = "dir"

CopyExit(f, o) == IF o = "ok" /\ CopyRuns(f) THEN "ok" ELSE "failed"

Mirrored(f) == IF LocalFiles(f) = DurableFiles(f) THEN "equal" ELSE "differs"

\* stdout of the mount-table query.
MountCheckStdout(f) ==
  IF f.mounted THEN <<"s3fs on ", "/data/moltbot", " type fuse.s3fs">>
  ELSE <<"not mounted">>

\* sandbox.exec either runs the command to the end, or the command exits
\* non-zero having changed nothing (exec still resolves), or exec rejects.
ExecOutcomes == {"ok", "failed", "threw"}

\* mountBucket attaches the bucket, at a mount point that then exists, or
\* rejects.
MountBucket(f) == [f EXCEPT !.mounted = TRUE, !.mnt = "dir"]

\* -------------------------------------------------------------------- state

VARIABLES
  cfg,        \* the MoltbotEnv every invocation is given
  procs,      \* the sandbox's process registry, in listProcesses order
  fs,         \* the sandbox's filesystem and mount table
  inv,        \* the invocations: operation, position, locals, result
  calls,      \* invocations begun so far
  launched,   \* processes startProcess has created so far
  lastMount   \* {fs} as the last mountR2Storage left it, if it returned true
              \* with every command run to the end; {} otherwise

vars == <<cfg, procs, fs, inv, calls, launched, lastMount>>

Slots == 1..NInv

\* A result: what the invocation returned or threw.
\*   threw    the promise rejected (error holds the message)
\*   value    "pending", "void", or for syncToR2 the success field
\*   error, details, lastSync   the fields of syncToR2's result
NoRet ==
  [threw |-> FALSE, value |-> "pending", error |-> Undef, details |-> Undef,
   lastSync |-> Undef]

Returned(v) == [NoRet EXCEPT !.value = v]
Threw(msg) == [NoRet EXCEPT !.threw = TRUE, !.value = Undef, !.error = msg]
SyncResult(ok, err, det, at) ==
  [threw |-> FALSE, value |-> ok, error |-> err, details |-> det, lastSync |-> at]

\* An invocation.
\*   op, pc     the operation and the await it stands at
\*   log        the sandbox calls it has made, in order
\*   r2         what its call of mountR2Storage returned ("-" before)
\*   start      the arguments it passed to startProcess
\*   ret        its result
\* and, recorded for the properties:
\*   chk        the registry as Check's listProcesses was called: a matching
\*              running process existed (running), no matching process
\*              existed (none), the process of the caller's previous
\*              ensureMoltbotGateway was running (prev); of the earlier
\*              ensureMoltbotGateway, the registry at its first sandbox call
\*   vfy        the status Verify's lookup returned ("-" before, "null")
\*   myPid      the pid its startProcess created (0: none)
\*   prevPid    myPid of the caller's previous call, if that was an
\*              ensureMoltbotGateway whose Check met no gateway process and
\*              whose Verify found its process running
\*   mq         the mount table as the mount query saw it ("-" before)
\*   mentry     {fs} at the entry of mountR2Storage, while it runs
\*   mclean     every command of mountR2Storage so far ran to the end
\*   mthrew     a call made by mountR2Storage rejected
\*   idem       of a mountR2Storage entered in the state lastMount holds:
\*              "same" if it left that state, "changed" if not ("-" else)
\*   chkThrew   Check's listProcesses rejected while a gateway was running
\*   copy       how the copy command ended ("-" before, "ok", "failed")
\*   diag       {stderr} of the result the copy command resolved with
\*   mirror     as syncToR2 returned success: the files of the durable
\*              subdirectory were those of the local directory ("equal") or
\*              not ("differs"); "-" otherwise
\*   caught    a call awaited by syncToR2 itself rejected in this invocation
\*   vfyThrew  listProcesses rejected at Verify while the process this
\*             invocation launched was running
\*   chkStale  the first matching process of the registry was not running
\*             as Check's listProcesses was called
NoChk == [running |-> FALSE, none |-> FALSE, prev |-> FALSE]

IdleInv ==
  [op |-> "none", pc |-> "idle", log |-> <<>>, r2 |-> "-", start |-> {},
   ret |-> NoRet, chk |-> NoChk, vfy |-> "-", myPid |-> 0, prevPid |-> 0,
   chkThrew |-> FALSE, mq |-> "-", mentry |-> {}, mclean |-> TRUE,
   mthrew |-> FALSE, idem |-> "-", copy |-> "-", mirror |-> "-", diag |-> {},
   caught |-> FALSE, vfyThrew |-> FALSE, chkStale |-> FALSE]

Free(i) == inv[i].pc \in {"idle", "done"}
InFlight(i) == ~Free(i)

\* Initially the registry holds a process that is not a gateway.
OtherProcess ==
  [pid |-> 100, command |-> OtherCommand, args |-> <<>>, status |-> "running"]

InitWith(configs) ==
  /\ cfg \in configs
  /\ procs = <<OtherProcess>>
  /\ fs = InitFs
  /\ inv = [i \in Slots |-> IdleInv]
  /\ calls = 0
  /\ launched = 0
  /\ lastMount = {}

Init == InitWith(StorageConfigs)

Set(i, r) == inv' = [inv EXCEPT ![i] = r]
Logged(i, call) == [inv[i] EXCEPT !.log = Append(@, call)]
Done(r, result) == [r EXCEPT !.pc = "done", !.ret = result]

\* ------------------------------------------------ mountR2Storage (gateway)

\* The guard without its test of the bucket name.
MountConfiguredBucketOnly(c) == Truthy(c.MOLTBOT_BUCKET)

\* The negation of the guard at the head of mountR2Storage.
MountConfigured(c) == Truthy(c.R2_BUCKET_NAME) /\ Truthy(c.MOLTBOT_BUCKET)

\* AfterMount with a syncToR2 that goes on whatever mountR2Storage returned.
AfterMountUnchecked(r, result, f) ==
  LET r1 == [r EXCEPT !.r2 = result, !.mentry = {},
                      !.idem = IF r.mentry # {} /\ r.mentry = lastMount
                                 THEN IF r.mentry = {f} THEN "same" ELSE "changed"
                                 ELSE "-"]
  IN IF r.op = "ensure" THEN [r1 EXCEPT !.pc = "e_start"]
     ELSE [r1 EXCEPT !.pc = "s_mk1"]

\* The caller's continuation once mountR2Storage has returned `result` with
\* the filesystem as f: ensureMoltbotGateway goes on to startProcess either
\* way, syncToR2 returns its failure when the mount did not succeed.
AfterMount(r, result, f) ==
  LET r1 == [r EXCEPT !.r2 = result, !.mentry = {},
                      !.idem = IF r.mentry # {} /\ r.mentry = lastMount
                                 THEN IF r.mentry = {f} THEN "same" ELSE "changed"
                                 ELSE "-"]
  IN IF r.op = "ensure" THEN [r1 EXCEPT !.pc = "e_start"]
     ELSE IF result = "true" THEN [r1 EXCEPT !.pc = "s_mk1"]
     ELSE Done(r1, SyncResult("false", "R2 storage not mounted",
                              <<"Failed to mount R2 bucket">>, Undef))

MountExit(i, r, result, f) ==
  /\ Set(i, AfterMount(r, result, f))
  /\ lastMount' = IF result = "true" /\ r.mclean THEN {f} ELSE {}

\* Entry: without configuration return false at once.
MountEnter(i) ==
  /\ inv[i].pc = "m_enter"
  /\ IF MountConfigured(cfg)
       THEN /\ Set(i, [inv[i] EXCEPT !.pc = "m_mkdir", !.mentry = {fs}])
            /\ UNCHANGED lastMount
       ELSE MountExit(i, inv[i], "false", fs)
  /\ UNCHANGED <<cfg, procs, fs, calls, launched>>

\* MountExec without the catch: a rejected exec rejects the caller.
MountExecUncaught(i, here, cmd, next) ==
  /\ inv[i].pc = here
  /\ \E o \in ExecOutcomes :
       LET r == [Logged(i, cmd) EXCEPT !.mclean = @ /\ o = "ok",
                                      !.mthrew = (o = "threw")]
           f == IF o = "ok" THEN ShellEffect(fs, cmd) ELSE fs
       IN /\ fs' = f
          /\ IF o = "threw"
               THEN Set(i, Done(r, Threw("exec rejected"))) /\ UNCHANGED lastMount
             ELSE IF next = "return" THEN MountExit(i, r, "true", f)
             ELSE Set(i, [r EXCEPT !.pc = next]) /\ UNCHANGED lastMount
  /\ UNCHANGED <<cfg, procs, calls, launched>>

\* One awaited sandbox.exec of the try block: a rejection goes to the catch,
\* which returns false; the last one falls through to return true.
MountExec(i, here, cmd, next) ==
  /\ inv[i].pc = here
  /\ \E o \in ExecOutcomes :
       LET r == [Logged(i, cmd) EXCEPT !.mclean = @ /\ o = "ok",
                                      !.mthrew = (o = "threw")]
           f == IF o = "ok" THEN ShellEffect(fs, cmd) ELSE fs
       IN /\ fs' = f
          /\ IF o = "threw" THEN MountExit(i, r, "false", f)
             ELSE IF next = "return" THEN MountExit(i, r, "true", f)
             ELSE Set(i, [r EXCEPT !.pc = next]) /\ UNCHANGED lastMount
  /\ UNCHANGED <<cfg, procs, calls, launched>>

MountMkdir(i) == MountExec(i, "m_mkdir", CmdMkdirMnt, "m_chmod")
MountChmod(i) == MountExec(i, "m_chmod", CmdChmodMnt, "m_bucket")

MountBucketStep(i) ==
  /\ inv[i].pc = "m_bucket"
  /\ \E ok \in BOOLEAN :
       LET r == [Logged(i, "mountBucket") EXCEPT !.mclean = @ /\ ok,
                                                !.mthrew = ~ok]
       IN IF ok
            THEN /\ fs' = MountBucket(fs)
                 /\ Set(i, [r EXCEPT !.pc = "m_sub"])
                 /\ UNCHANGED lastMount
            ELSE /\ fs' = fs
                 /\ MountExit(i, r, "false", fs)
  /\ UNCHANGED <<cfg, procs, calls, launched>>

MountMkdirSub(i) == MountExec(i, "m_sub", CmdMkdirSub, "m_ln1")
MountLink1(i) == MountExec(i, "m_ln1", CmdLn1, "m_ln2")
MountLink2(i) == MountExec(i, "m_ln2", CmdLn2, "return")

\* --------------------------------------------------- ensureMoltbotGateway

\* Calls in flight that may still reach startProcess.
MayLaunch(i) ==
  \/ inv[i].op = "ensure" /\ inv[i].pc \notin {"done", "e_verify"}
  \/ inv[i].op = "ensure1" /\ inv[i].pc # "done"

\* The first process of the list that matches the gateway signature is
\* not running.
FirstMatchNotRunning(ps) ==
  \E j \in 1..Len(ps) :
    /\ IsMoltbot(ps[j]) /\ ps[j].status # "running"
    /\ \A m \in 1..(j - 1) : ~IsMoltbot(ps[m])

\* The registry as a lookup made now meets it.
RegistryNow(prevPid) ==
  [running |-> \E k \in 1..Len(procs) :
                 IsMoltbot(procs[k]) /\ procs[k].status = "running",
   none |-> \A k \in 1..Len(procs) : ~IsMoltbot(procs[k]),
   prev |-> \E k \in 1..Len(procs) :
              procs[k].pid = prevPid /\ procs[k].status = "running"]

BeginEnsure(i) ==
  /\ Free(i)
  /\ calls < MaxCalls
  /\ launched + Cardinality({j \in Slots : MayLaunch(j)}) < MaxLaunch
  /\ Set(i, [IdleInv EXCEPT !.op = "ensure", !.pc = "e_check",
                            !.prevPid = IF /\ inv[i].op = "ensure"
                                           /\ inv[i].chk.none
                                           /\ inv[i].vfy = "running"
                                          THEN inv[i].myPid ELSE 0])
  /\ calls' = calls + 1
  /\ UNCHANGED <<cfg, procs, fs, launched, lastMount>>

\* Check: the lookup, and the return when it is running.
EnsureCheck(i) ==
  /\ inv[i].pc = "e_check"
  /\ \E listThrows \in BOOLEAN :
       LET existing == FindExisting(procs, listThrows)
           r == [Logged(i, "listProcesses") EXCEPT
                   !.chkThrew = listThrows /\ RegistryNow(0).running,
                   !.chkStale = FirstMatchNotRunning(procs),
                   !.chk = RegistryNow(inv[i].prevPid)]
       IN IF existing # NullProc /\ existing.status = "running"
            THEN Set(i, Done(r, Returned("void")))
            ELSE Set(i, [r EXCEPT !.pc = "m_enter"])
  /\ UNCHANGED <<cfg, procs, fs, calls, launched, lastMount>>

NewProcess(pid) ==
  [pid |-> pid, command |-> LauncherCommand, args |-> <<>>, status |-> "starting"]

\* EnsureStart behind a lock: not while another invocation that has launched
\* is still in flight.
EnsureStartLocked(i) ==
  /\ inv[i].pc = "e_start"
  /\ \A j \in Slots \ {i} : Free(j) \/ inv[j].myPid = 0
  /\ \E ok \in BOOLEAN :
       LET r == [Logged(i, "startProcess") EXCEPT !.start = {StartArgs(cfg)}]
       IN IF ok
            THEN /\ procs' = Append(procs, NewProcess(launched + 1))
                 /\ launched' = launched + 1
                 /\ Set(i, [r EXCEPT !.pc = "e_verify", !.myPid = launched + 1])
            ELSE /\ Set(i, Done(r, Threw("startProcess failed")))
                 /\ UNCHANGED <<procs, launched>>
  /\ UNCHANGED <<cfg, fs, calls, lastMount>>

\* Assemble and Launch; a rejection is logged and thrown again.
EnsureStart(i) ==
  /\ inv[i].pc = "e_start"
  /\ \E ok \in BOOLEAN :
       LET r == [Logged(i, "startProcess") EXCEPT !.start = {StartArgs(cfg)}]
       IN IF ok
            THEN /\ procs' = Append(procs, NewProcess(launched + 1))
                 /\ launched' = launched + 1
                 /\ Set(i, [r EXCEPT !.pc = "e_verify", !.myPid = launched + 1])
            ELSE /\ Set(i, Done(r, Threw("startProcess failed")))
                 /\ UNCHANGED <<procs, launched>>
  /\ UNCHANGED <<cfg, fs, calls, lastMount>>

\* Verify that fails only on a process that was found and is not running.
EnsureVerifyFoundOnly(i) ==
  /\ inv[i].pc = "e_verify"
  /\ \E listThrows \in BOOLEAN :
       LET verify == FindExisting(procs, listThrows)
           r == [Logged(i, "listProcesses") EXCEPT !.vfy = verify.status]
       IN IF verify # NullProc /\ verify.status # "running"
            THEN Set(i, Done(r, Threw("Gateway failed to start")))
            ELSE Set(i, Done(r, Returned("void")))
  /\ UNCHANGED <<cfg, procs, fs, calls, launched, lastMount>>

\* The process this invocation's startProcess created is running now.
LaunchedRuns(i) ==
  \E k \in 1..Len(procs) :
    procs[k].pid = inv[i].myPid /\ procs[k].status = "running"

\* Verify, once the settle delay has passed.
EnsureVerify(i) ==
  /\ inv[i].pc = "e_verify"
  /\ \E listThrows \in BOOLEAN :
       LET verify == FindExisting(procs, listThrows)
           r == [Logged(i, "listProcesses") EXCEPT
                   !.vfy = verify.status,
                   !.vfyThrew = listThrows /\ LaunchedRuns(i)]
       IN IF verify = NullProc \/ verify.status # "running"
            THEN Set(i, Done(r, Threw("Gateway failed to start")))
            ELSE Set(i, Done(r, Returned("void")))
  /\ UNCHANGED <<cfg, procs, fs, calls, launched, lastMount>>

\* ---------------------------------------------------------------- syncToR2

\* The invocation record on entering the catch block of syncToR2.
Caught(r) == [r EXCEPT !.caught = TRUE]

SyncFailed(det) == SyncResult("false", "Sync failed", det, Undef)

\* The message of whatever sandbox.exec rejected with.
ExecError == <<"exec rejected">>

\* BeginSync testing the bucket name against undefined only.
BeginSyncUndefinedOnly(i) ==
  /\ Free(i)
  /\ calls < MaxCalls
  /\ IF cfg.R2_BUCKET_NAME = Undef
       THEN Set(i, Done([IdleInv EXCEPT !.op = "sync"],
                        SyncResult("false", "R2 storage is not configured",
                                   <<"Missing R2_BUCKET_NAME environment variable">>,
                                   Undef)))
       ELSE Set(i, [IdleInv EXCEPT !.op = "sync", !.pc = "s_query"])
  /\ calls' = calls + 1
  /\ UNCHANGED <<cfg, procs, fs, launched, lastMount>>

\* Entry: without a bucket name return the not-configured result at once.
BeginSync(i) ==
  /\ Free(i)
  /\ calls < MaxCalls
  /\ IF ~Truthy(cfg.R2_BUCKET_NAME)
       THEN Set(i, Done([IdleInv EXCEPT !.op = "sync"],
                        SyncResult("false", "R2 storage is not configured",
                                   <<"Missing R2_BUCKET_NAME environment variable">>,
                                   Undef)))
       ELSE Set(i, [IdleInv EXCEPT !.op = "sync", !.pc = "s_query"])
  /\ calls' = calls + 1
  /\ UNCHANGED <<cfg, procs, fs, launched, lastMount>>

\* SyncQuery that calls mountR2Storage whatever the query answered.
SyncQueryRemounts(i) ==
  /\ inv[i].pc = "s_query"
  /\ \E threw \in BOOLEAN :
       LET r == Logged(i, CmdMountCheck)
           mountCheck == MountCheckStdout(fs)
       IN IF threw THEN Set(i, Done(Caught(r), SyncFailed(ExecError)))
          ELSE IF Includes(mountCheck, <<"not mounted">>)
            THEN Set(i, [r EXCEPT !.pc = "m_enter", !.mq = "not mounted"])
            ELSE Set(i, [r EXCEPT !.pc = "m_enter", !.mq = "mounted"])
  /\ UNCHANGED <<cfg, procs, fs, calls, launched, lastMount>>

\* The mount-table query; "not mounted" in its output leads to mountR2Storage.
SyncQuery(i) ==
  /\ inv[i].pc = "s_query"
  /\ \E threw \in BOOLEAN :
       LET r == Logged(i, CmdMountCheck)
           mountCheck == MountCheckStdout(fs)
       IN IF threw THEN Set(i, Done(Caught(r), SyncFailed(ExecError)))
          ELSE IF Includes(mountCheck, <<"not mounted">>)
            THEN Set(i, [r EXCEPT !.pc = "m_enter", !.mq = "not mounted"])
            ELSE Set(i, [r EXCEPT !.pc = "s_mk1", !.mq = "mounted"])
  /\ UNCHANGED <<cfg, procs, fs, calls, launched, lastMount>>

\* SyncExec outside the try block: a rejected sandbox.exec reaches the caller.
SyncExecUncaught(i, here, cmd, next) ==
  /\ inv[i].pc = here
  /\ \E o \in ExecOutcomes :
       LET r == Logged(i, cmd)
       IN /\ fs' = IF o = "ok" THEN ShellEffect(fs, cmd) ELSE fs
          /\ IF o = "threw" THEN Set(i, Done(Caught(r), Threw("exec rejected")))
             ELSE Set(i, [r EXCEPT !.pc = next])
  /\ UNCHANGED <<cfg, procs, calls, launched, lastMount>>

\* One awaited sandbox.exec of syncToR2's directory creation.
SyncExec(i, here, cmd, next) ==
  /\ inv[i].pc = here
  /\ \E o \in ExecOutcomes :
       LET r == Logged(i, cmd)
       IN /\ fs' = IF o = "ok" THEN ShellEffect(fs, cmd) ELSE fs
          /\ IF o = "threw" THEN Set(i, Done(Caught(r), SyncFailed(ExecError)))
             ELSE Set(i, [r EXCEPT !.pc = next])
  /\ UNCHANGED <<cfg, procs, calls, launched, lastMount>>

SyncMkdirLocal(i) == SyncExec(i, "s_mk1", CmdMkdirLocal, "s_rsync_dir")
SyncMkdirSub(i) == SyncExec(i, "s_rsync_dir", CmdMkdirSub, "s_rsync")

\* What the copy may leave in the stderr field of its result.
RsyncHeader == "sending incremental file list"
RsyncStderrs ==
  {<<>>, <<RsyncHeader>>, <<"rsync: write failed">>,
   <<RsyncHeader, "rsync: write failed">>}

\* The test on syncResult.stderr that makes syncToR2 report a failure.
IsRsyncError(stderr) == stderr # <<>> /\ ~Includes(stderr, <<RsyncHeader>>)

\* The copy and the interpretation of its result.
SyncRsync(i) ==
  /\ inv[i].pc = "s_rsync"
  /\ \E o \in ExecOutcomes, stderr \in RsyncStderrs :
       LET f == IF o = "ok" THEN ShellEffect(fs, CmdRsync) ELSE fs
           r == [Logged(i, CmdRsync) EXCEPT
                   !.copy = IF o = "threw" THEN "-" ELSE CopyExit(fs, o),
                   !.diag = IF o = "threw" THEN {} ELSE {stderr}]
       IN /\ fs' = f
          /\ IF o = "threw" THEN Set(i, Done(Caught(r), SyncFailed(ExecError)))
             ELSE IF IsRsyncError(stderr) THEN Set(i, Done(r, SyncFailed(stderr)))
             ELSE Set(i, Done([r EXCEPT !.mirror = Mirrored(f)],
                              SyncResult("true", Undef, <<>>, "now")))
  /\ UNCHANGED <<cfg, procs, calls, launched, lastMount>>

\* ------------------------------- ensureMoltbotGateway (earlier, lines 31-65)

\* Entry: with bucket and name the mount comes first, before the lookup.
BeginEnsureV1(i) ==
  /\ Free(i)
  /\ calls < MaxCalls
  /\ launched + Cardinality({j \in Slots : MayLaunch(j)}) < MaxLaunch
  /\ Set(i, [IdleInv EXCEPT
               !.op = "ensure1",
               !.pc = IF Truthy(cfg.MOLTBOT_BUCKET) /\ Truthy(cfg.R2_BUCKET_NAME)
                        THEN "v_exec" ELSE "v_check"])
  /\ calls' = calls + 1
  /\ UNCHANGED <<cfg, procs, fs, launched, lastMount>>

\* The directory and its permission; a rejection is caught and logged.
EnsureV1MountExec(i) ==
  /\ inv[i].pc = "v_exec"
  /\ \E o \in ExecOutcomes :
       LET r == [Logged(i, CmdMkdirChmod) EXCEPT !.chk = RegistryNow(0)]
       IN /\ fs' = IF o = "ok" THEN ShellEffect(fs, CmdMkdirChmod) ELSE fs
          /\ Set(i, [r EXCEPT !.pc = IF o = "threw" THEN "v_check" ELSE "v_bucket"])
  /\ UNCHANGED <<cfg, procs, calls, launched, lastMount>>

EnsureV1MountBucket(i) ==
  /\ inv[i].pc = "v_bucket"
  /\ \E ok \in BOOLEAN :
       /\ fs' = IF ok THEN MountBucket(fs) ELSE fs
       /\ Set(i, [Logged(i, "mountBucket") EXCEPT !.pc = "v_check"])
  /\ UNCHANGED <<cfg, procs, calls, launched, lastMount>>

\* The lookup, and the return when it is running.
EnsureV1Check(i) ==
  /\ inv[i].pc = "v_check"
  /\ \E listThrows \in BOOLEAN :
       LET existing == FindExistingV1(procs, listThrows)
           r == [Logged(i, "listProcesses") EXCEPT
                   !.chkThrew = listThrows /\ RegistryNow(0).running,
                   !.chk = IF inv[i].log = <<>> THEN RegistryNow(0) ELSE @]
       IN IF existing # NullProc /\ existing.status = "running"
            THEN Set(i, Done(r, Returned("void")))
            ELSE Set(i, [r EXCEPT !.pc = "v_start"])
  /\ UNCHANGED <<cfg, procs, fs, calls, launched, lastMount>>

\* The launch; nothing catches a rejection and nothing verifies.
EnsureV1Start(i) ==
  /\ inv[i].pc = "v_start"
  /\ \E ok \in BOOLEAN :
       LET r == [Logged(i, "startProcess") EXCEPT !.start = {StartArgsV1(cfg)}]
       IN IF ok
            THEN /\ procs' = Append(procs, NewProcess(launched + 1))
                 /\ launched' = launched + 1
                 /\ Set(i, Done([r EXCEPT !.myPid = launched + 1], Returned("void")))
            ELSE /\ Set(i, Done(r, Threw("startProcess failed")))
                 /\ UNCHANGED <<procs, launched>>
  /\ UNCHANGED <<cfg, fs, calls, lastMount>>

\* ------------------------------------------- syncToR2 (earlier, lines 70-89)

\* Entry: without a bucket name return the failure at once.
BeginSyncV1(i) ==
  /\ Free(i)
  /\ calls < MaxCalls
  /\ IF ~Truthy(cfg.R2_BUCKET_NAME)
       THEN Set(i, Done([IdleInv EXCEPT !.op = "sync1"],
                        SyncResult("false", "R2_BUCKET_NAME not set", <<>>, Undef)))
       ELSE Set(i, [IdleInv EXCEPT !.op = "sync1", !.pc = "w_rsync"])
  /\ calls' = calls + 1
  /\ UNCHANGED <<cfg, procs, fs, launched, lastMount>>

\* The copy, without --delete; success unless exec rejects.
SyncV1Rsync(i) ==
  /\ inv[i].pc = "w_rsync"
  /\ \E o \in ExecOutcomes :
       LET f == IF o = "ok" THEN ShellEffect(fs, CmdRsyncV1) ELSE fs
           r == [Logged(i, CmdRsyncV1) EXCEPT !.copy = IF o = "threw" THEN "-" ELSE CopyExit(fs, o)]
       IN /\ fs' = f
          /\ IF o = "threw"
               THEN Set(i, Done(r, SyncResult("false", "Error: exec rejected",
                                              <<>>, Undef)))
               ELSE Set(i, Done([r EXCEPT !.mirror = Mirrored(f)],
                                SyncResult("true", Undef, <<>>, Undef)))
  /\ UNCHANGED <<cfg, procs, calls, launched, lastMount>>

\* ------------------------------------------ mountR2Storage (gateway/r2.ts)

\* The negation of the guard at the head of r2.ts's mountR2Storage.
R2Configured(c) == Truthy(c.MOLTBOT_BUCKET) /\ Truthy(c.R2_BUCKET_NAME)

\* Entry: without configuration return (nothing) at once.
BeginR2Mount(i) ==
  /\ Free(i)
  /\ calls < MaxCalls
  /\ IF ~R2Configured(cfg)
       THEN Set(i, Done([IdleInv EXCEPT !.op = "r2mount"], Returned("void")))
       ELSE Set(i, [IdleInv EXCEPT !.op = "r2mount", !.pc = "r_exec"])
  /\ calls' = calls + 1
  /\ UNCHANGED <<cfg, procs, fs, launched, lastMount>>

\* The directory and its permission; the catch logs and throws again.
R2MountExec(i) ==
  /\ inv[i].pc = "r_exec"
  /\ \E o \in ExecOutcomes :
       LET r == Logged(i, CmdMkdirChmod)
       IN /\ fs' = IF o = "ok" THEN ShellEffect(fs, CmdMkdirChmod) ELSE fs
          /\ IF o = "threw" THEN Set(i, Done(r, Threw("exec rejected")))
             ELSE Set(i, [r EXCEPT !.pc = "r_bucket"])
  /\ UNCHANGED <<cfg, procs, calls, launched, lastMount>>

R2MountBucket(i) ==
  /\ inv[i].pc = "r_bucket"
  /\ \E ok \in BOOLEAN :
       LET r == Logged(i, "mountBucket")
       IN IF ok
            THEN fs' = MountBucket(fs) /\ Set(i, Done(r, Returned("void")))
            ELSE fs' = fs /\ Set(i, Done(r, Threw("mountBucket rejected")))
  /\ UNCHANGED <<cfg, procs, calls, launched, lastMount>>

\* ------------------------------------------------------------- environment

\* A gateway process comes up, fails to, or ends.
StatusAfter(st) ==
  CASE st = "starting" -> {"running", "failed"}
    [] st = "running" -> {"stopped"}
    [] OTHER -> {}

ProcessChanges ==
  /\ \E k \in 1..Len(procs), st \in {"running", "stopped", "failed"} :
       /\ IsMoltbot(procs[k])
       /\ st \in StatusAfter(procs[k].status)
       /\ procs' = [procs EXCEPT ![k].status = st]
  /\ UNCHANGED <<cfg, fs, inv, calls, launched, lastMount>>

\* The names of the files written to the local state directory.
Files == {"a.txt", "b.txt"}

\* A file is written to /root/.openclaw or deleted from it, by the gateway
\* or by hand: in the real directory, through the symlink in the bucket's
\* subdirectory, or in a directory the writer creates.
LocalChange ==
  /\ \E x \in Files, add \in BOOLEAN :
       LET put(set) == IF add THEN set \cup {x} ELSE set \ {x}
       IN /\ CASE fs.l1 = "dir" -> fs' = [fs EXCEPT !.lfiles = put(@)]
              [] fs.l1 = "link" /\ fs.sub -> fs' = [fs EXCEPT !.dfiles = put(@)]
              [] fs.l1 = "none" /\ add ->
                   fs' = [fs EXCEPT !.l1 = "dir", !.lfiles = {x}]
              [] OTHER -> FALSE
          /\ fs' # fs
  /\ UNCHANGED <<cfg, procs, inv, calls, launched, lastMount>>

\* ------------------------------------------------------------ specification

MountStep(i) ==
  \/ MountEnter(i)
  \/ MountMkdir(i)
  \/ MountChmod(i)
  \/ MountBucketStep(i)
  \/ MountMkdirSub(i)
  \/ MountLink1(i)
  \/ MountLink2(i)

EnsureBody(i) ==
  \/ EnsureCheck(i)
  \/ MountStep(i)
  \/ EnsureStart(i)
  \/ EnsureVerify(i)

EnsureStep(i) == BeginEnsure(i) \/ EnsureBody(i)

EnsureV1Body(i) ==
  \/ EnsureV1MountExec(i)
  \/ EnsureV1MountBucket(i)
  \/ EnsureV1Check(i)
  \/ EnsureV1Start(i)

EnsureV1Step(i) == BeginEnsureV1(i) \/ EnsureV1Body(i)

Step(i) ==
  \/ EnsureStep(i)
  \/ BeginSync(i)
  \/ SyncQuery(i)
  \/ SyncMkdirLocal(i)
  \/ SyncMkdirSub(i)
  \/ SyncRsync(i)
  \/ BeginR2Mount(i)
  \/ R2MountExec(i)
  \/ R2MountBucket(i)

StepV1(i) ==
  \/ EnsureV1Step(i)
  \/ BeginSyncV1(i)
  \/ SyncV1Rsync(i)

Environment == ProcessChanges

\* One caller, whose calls follow one another, of the later gateway file
\* and of r2.ts.
Next == Step(1) \/ Environment

Spec == Init /\ [][Next]_vars

\* One caller of every version the repository holds.
NextAll == Step(1) \/ StepV1(1) \/ Environment

SpecAll == Init /\ [][NextAll]_vars

\* Callers of ensureMoltbotGateway that do not wait for one another (the
\* code holds no lock), one invocation each, in the configurations without
\* storage, where mountR2Storage returns at its entry.
EphemeralConfigs ==
  {c \in StorageConfigs : c.MOLTBOT_BUCKET = Undef /\ c.R2_BUCKET_NAME = Undef}

ConcurrentStep(i) ==
  \/ inv[i].pc = "idle" /\ BeginEnsure(i)
  \/ EnsureCheck(i)
  \/ MountEnter(i)
  \/ EnsureStart(i)
  \/ EnsureVerify(i)

NextConcurrent == (\E i \in Slots : ConcurrentStep(i)) \/ Environment

SpecConcurrent == InitWith(EphemeralConfigs) /\ [][NextConcurrent]_vars

\* One call of either ensureMoltbotGateway under every combination of
\* credentials.
NextEnv ==
  \/ calls = 0 /\ (BeginEnsure(1) \/ BeginEnsureV1(1))
  \/ EnsureBody(1)
  \/ EnsureV1Body(1)
  \/ Environment

SpecEnv == InitWith(CredentialConfigs) /\ [][NextEnv]_vars

\* ------------------------------------------------------------- properties

Gateways == {k \in 1..Len(procs) : IsMoltbot(procs[k])}
RunningGateways == {k \in Gateways : procs[k].status = "running"}

Count(log, call) == Cardinality({k \in 1..Len(log) : log[k] = call})

\* The sandbox calls that only mountR2Storage makes.
MountCalls ==
  {CmdMkdirMnt, CmdChmodMnt, CmdMkdirChmod, "mountBucket", CmdMkdirSub,
   CmdLn1, CmdLn2}
MadeMountCall(log) == \E k \in 1..Len(log) : log[k] \in MountCalls

\* C1: an ensureMoltbotGateway that is invoked while the registry holds a
\* running process matching the gateway signature makes no mount attempt,
\* makes no startProcess call and returns successfully.
C1_RunningMeansNoAction ==
  \A i \in Slots :
    inv[i].op \in {"ensure", "ensure1"} /\ inv[i].chk.running =>
      /\ inv[i].pc = "done"
      /\ inv[i].ret = Returned("void")
      /\ inv[i].log = <<"listProcesses">>

\* C2: with the caller's invocations following one another, at most one
\* process with the gateway signature is running at any time.
C2_AtMostOneRunning == Cardinality(RunningGateways) <= 1

\* C3: no lock and no queue keeps two interleaved invocations apart: an
\* invocation at Check can always look up, one that has passed Check can
\* always call startProcess whatever the other has done, and every
\* startProcess that succeeds adds a process of its own to the registry.
C3_NothingExcludesSecondLaunch ==
  /\ \A i \in Slots : inv[i].pc = "e_check" => ENABLED EnsureCheck(i)
  /\ \A i \in Slots : inv[i].pc = "e_start" => ENABLED EnsureStart(i)
  /\ Cardinality(Gateways) = launched

\* C3, the interleaving: both invocations passed Check with no gateway
\* process in the registry, both launched, and two gateway processes exist.
C3_BothLaunched ==
  \E i, j \in Slots :
    /\ i # j
    /\ inv[i].chk.none /\ inv[j].chk.none
    /\ inv[i].myPid # 0 /\ inv[j].myPid # 0 /\ inv[i].myPid # inv[j].myPid
    /\ Cardinality(Gateways) = 2

\* C4: the first call.  Under a configuration with the Anthropic key alone,
\* a call that met no gateway process makes exactly one startProcess call,
\* with ANTHROPIC_API_KEY and without OPENAI_API_KEY in its environment.
C4_FirstCallLaunchesOnce ==
  \A i \in Slots :
    inv[i].op = "ensure" /\ inv[i].chk.none /\ OnlyAnthropic(cfg)
    /\ inv[i].pc \in {"e_verify", "done"} =>
      /\ Count(inv[i].log, "startProcess") = 1
      /\ \A a \in inv[i].start :
           /\ <<"ANTHROPIC_API_KEY", cfg.ANTHROPIC_API_KEY>> \in a.env
           /\ "OPENAI_API_KEY" \notin EnvKeys(a.env)

\* C4: the second call.  When the process the first call launched is running
\* as the call that follows looks the registry up, that call makes no
\* startProcess call.
C4_SecondCallLaunchesNothing ==
  \A i \in Slots :
    inv[i].op = "ensure" /\ inv[i].prevPid # 0 /\ inv[i].chk.prev =>
      Count(inv[i].log, "startProcess") = 0

\* C4: a first call that launches once, then a second call that launches
\* nothing while the first call's process runs.
C4_LaunchOnceThenNone == C4_FirstCallLaunchesOnce /\ C4_SecondCallLaunchesNothing

\* C4 with a registry that answers: the second call whose lookup did not
\* fail launches nothing.
C4_SecondCallWithAnswer ==
  \A i \in Slots :
    inv[i].op = "ensure" /\ inv[i].prevPid # 0 /\ inv[i].chk.prev
    /\ inv[i].chkThrew = FALSE =>
      Count(inv[i].log, "startProcess") = 0

\* C5: a Verify whose lookup returns no process, or a process that is not
\* running, makes the invocation fail with the error thrown to the caller.
C5_VerifyFailureThrows ==
  \A i \in Slots :
    inv[i].op = "ensure" /\ inv[i].vfy \notin {"-", "running"} =>
      inv[i].pc = "done" /\ inv[i].ret = Threw("Gateway failed to start")

\* C5, the case: a launched gateway that Verify did not find running.
C5_VerifyFailed ==
  \E i \in Slots :
    /\ inv[i].myPid # 0
    /\ inv[i].vfy \in {"null", "starting", "failed", "stopped"}
    /\ inv[i].ret.threw

\* The configuration lacks the bucket binding or the bucket name.
StorageMissing == ~Truthy(cfg.MOLTBOT_BUCKET) \/ ~Truthy(cfg.R2_BUCKET_NAME)

MountPcs == {"m_mkdir", "m_chmod", "m_bucket", "m_sub", "m_ln1", "m_ln2"}

\* mountR2Storage of the gateway file was called and has returned.
MountReturned(i) ==
  \/ inv[i].pc \in {"e_start", "e_verify"}
  \/ inv[i].op = "ensure" /\ inv[i].pc = "done" /\ Len(inv[i].log) > 1
  \/ inv[i].op = "sync" /\ inv[i].mq = "not mounted" /\ inv[i].pc # "m_enter"

\* Without the bucket binding or name, the gateway file's mountR2Storage
\* returns false having made no exec and no mountBucket call.
GatewayMountSkips(i) ==
  /\ inv[i].pc \notin MountPcs
  /\ MountReturned(i) => inv[i].r2 = "false"
  /\ ~MadeMountCall(inv[i].log)

GatewayMountCatches(i) ==
  inv[i].mthrew =>
    /\ inv[i].r2 = "false"
    /\ inv[i].ret.threw =>
         inv[i].ret.error \in {"startProcess failed", "Gateway failed to start"}

\* C7: mountR2Storage never fails towards its caller: a rejection of exec or
\* of mountBucket is caught and false is returned.
C7_MountNeverRaises ==
  \A i \in Slots :
    /\ GatewayMountCatches(i)
    /\ inv[i].op = "r2mount" => ~inv[i].ret.threw

\* C7 of the gateway file's mountR2Storage alone.
C7_GatewayMountNeverRaises == \A i \in Slots : GatewayMountCatches(i)

\* C8: a mountR2Storage that is called in the state a successful one (true
\* returned, every command run to the end) left leaves that state as it is.
C8_SecondMountChangesNothing == \A i \in Slots : inv[i].idem # "changed"

\* An assembled environment holds a credential or token key only with the
\* non-empty value the configuration holds, and no empty entry.
CredentialsPresent(e) ==
  /\ \A kv \in e : kv[2] # "" /\ kv[2] # Undef
  /\ "ANTHROPIC_API_KEY" \in EnvKeys(e) =>
       /\ Truthy(cfg.ANTHROPIC_API_KEY)
       /\ <<"ANTHROPIC_API_KEY", cfg.ANTHROPIC_API_KEY>> \in e
  /\ "OPENAI_API_KEY" \in EnvKeys(e) =>
       /\ Truthy(cfg.OPENAI_API_KEY)
       /\ <<"OPENAI_API_KEY", cfg.OPENAI_API_KEY>> \in e
  /\ "OPENCLAW_GATEWAY_TOKEN" \in EnvKeys(e) =>
       /\ Truthy(cfg.MOLTBOT_GATEWAY_TOKEN)
       /\ <<"OPENCLAW_GATEWAY_TOKEN", cfg.MOLTBOT_GATEWAY_TOKEN>> \in e

\* C9: a credential or token key is in the environment passed to
\* startProcess only with the non-empty value the configuration holds; an
\* absent credential gives no key, never a key with an empty value.
C9_OnlyPresentCredentials ==
  \A i \in Slots : \A a \in inv[i].start : CredentialsPresent(a.env)

\* C9 of the later ensureMoltbotGateway alone.
C9_LaterOnlyPresentCredentials ==
  \A i \in Slots :
    inv[i].op = "ensure" => \A a \in inv[i].start : CredentialsPresent(a.env)

\* C10: without a bucket name either syncToR2 returns success false with
\* its not-configured error, having made no sandbox call at all.
C10_NoNameNoSync ==
  ~Truthy(cfg.R2_BUCKET_NAME) =>
    \A i \in Slots :
      inv[i].op \in {"sync", "sync1"} =>
        /\ inv[i].pc = "done"
        /\ inv[i].log = <<>>
        /\ ~inv[i].ret.threw
        /\ inv[i].ret.value = "false"
        /\ inv[i].ret.error =
             (IF inv[i].op = "sync" THEN "R2 storage is not configured"
              ELSE "R2_BUCKET_NAME not set")
        /\ inv[i].ret.lastSync = Undef
        /\ fs = InitFs

\* C10, the case: the later syncToR2 has returned under an empty bucket name.
C10_SyncNotConfigured ==
  \E i \in Slots :
    inv[i].op = "sync" /\ inv[i].pc = "done" /\ cfg.R2_BUCKET_NAME = ""

\* C11: a syncToR2 whose mount query answered "not mounted" and whose
\* mountR2Storage returned false returns success false with the not-mounted
\* error and runs no directory creation and no copy.
C11_NoMountNoCopy ==
  \A i \in Slots :
    inv[i].op = "sync" /\ inv[i].mq = "not mounted" /\ inv[i].r2 = "false" =>
      /\ inv[i].pc = "done"
      /\ ~inv[i].ret.threw
      /\ inv[i].ret.value = "false"
      /\ inv[i].ret.error = "R2 storage not mounted"
      /\ inv[i].ret.lastSync = Undef
      /\ Count(inv[i].log, CmdRsync) = 0
      /\ Count(inv[i].log, CmdMkdirLocal) = 0

\* C11, the case: the bucket name is set, the binding is missing, and
\* syncToR2 has returned after the mount it asked for returned false.
C11_NameWithoutBinding ==
  \E i \in Slots :
    /\ cfg.R2_BUCKET_NAME = "demo" /\ cfg.MOLTBOT_BUCKET = Undef
    /\ inv[i].op = "sync" /\ inv[i].mq = "not mounted"
    /\ inv[i].r2 = "false" /\ inv[i].pc = "done"

\* Both versions of syncToR2, with storage configured, while files come and
\* go in the local state directory.
FullConfigs ==
  {c \in StorageConfigs : c.MOLTBOT_BUCKET = "bucket" /\ c.R2_BUCKET_NAME = "demo"}

SyncStep(i) ==
  \/ BeginSync(i)
  \/ SyncQuery(i)
  \/ MountStep(i)
  \/ SyncMkdirLocal(i)
  \/ SyncMkdirSub(i)
  \/ SyncRsync(i)
  \/ BeginSyncV1(i)
  \/ SyncV1Rsync(i)

NextFiles == SyncStep(1) \/ LocalChange

SpecFiles == InitWith(FullConfigs) /\ [][NextFiles]_vars

\* C12: as a syncToR2 returns success, the files of /data/moltbot/openclaw
\* are exactly the files of /root/.openclaw.
C12_SuccessMeansMirrored ==
  \A i \in Slots :
    inv[i].op \in {"sync", "sync1"} /\ inv[i].pc = "done"
    /\ inv[i].ret.value = "true" =>
      inv[i].mirror = "equal"

\* C12 of the later syncToR2 alone, when the copy command ran to its end.
C12_LaterCopyMirrors ==
  \A i \in Slots :
    inv[i].op = "sync" /\ inv[i].pc = "done" /\ inv[i].ret.value = "true"
    /\ inv[i].copy = "ok" =>
      inv[i].mirror = "equal"

\* C12 of the later syncToR2 alone.
C12_LaterSuccessMeansMirrored ==
  \A i \in Slots :
    inv[i].op = "sync" /\ inv[i].pc = "done" /\ inv[i].ret.value = "true" =>
      inv[i].mirror = "equal"

\* C12 of the earlier syncToR2 alone, when the copy command ran to its end.
C12_EarlierCopyMirrors ==
  \A i \in Slots :
    inv[i].op = "sync1" /\ inv[i].pc = "done" /\ inv[i].ret.value = "true"
    /\ inv[i].copy = "ok" =>
      inv[i].mirror = "equal"

\* C13: whatever the copy command resolves with, syncToR2 returns success
\* true exactly when stderr is empty or is the header alone, and otherwise
\* returns success false with that stderr as details.
C13_SuccessIffHeaderOnly ==
  \A i \in Slots : \A stderr \in inv[i].diag :
    /\ inv[i].pc = "done"
    /\ inv[i].ret.value = "true" <=> stderr \in {<<>>, <<RsyncHeader>>}
    /\ inv[i].ret.value # "true" =>
         inv[i].ret.value = "false" /\ inv[i].ret.details = stderr

\* C13 without the case of an error message that follows the header.
C13_SuccessIffNoErrorAlone ==
  \A i \in Slots : \A stderr \in inv[i].diag :
    /\ inv[i].pc = "done"
    /\ inv[i].ret.value = "true" <=> ~IsRsyncError(stderr)
    /\ inv[i].ret.value # "true" =>
         inv[i].ret.value = "false" /\ inv[i].ret.details = stderr

\* Calls of both versions of ensureMoltbotGateway, every sandbox call of
\* which resolves or rejects in the end, with storage configured and without.
NextLaunch == EnsureStep(1) \/ EnsureV1Step(1) \/ Environment

LaunchConfigs == {c \in StorageConfigs : BothOrNeither(c)}

SpecLaunch ==
  /\ InitWith(LaunchConfigs)
  /\ [][NextLaunch]_vars
  /\ WF_vars(EnsureBody(1) \/ EnsureV1Body(1))

\* A Check that did not return has been made, and startProcess has not.
PassedCheck(i) ==
  \/ inv[i].pc \in MountPcs \cup {"m_enter", "e_start"}
  \/ inv[i].pc = "v_start"

CalledStart(i) == Count(inv[i].log, "startProcess") = 1

\* An ensureMoltbotGateway rejects only with what startProcess or Verify threw.
OnlyLaunchOrVerifyFails(i) ==
  inv[i].op \in {"ensure", "ensure1"} /\ inv[i].ret.threw =>
    /\ CalledStart(i)
    /\ inv[i].ret.error \in {"startProcess failed", "Gateway failed to start"}

\* C14 (of the one caller of SpecLaunch, whose invocations are inv[1]): an
\* ensureMoltbotGateway whose Check met no running gateway calls
\* startProcess, whatever mountR2Storage returned and whatever was thrown
\* inside it; it rejects only with a failure of the launch or of Verify.
C14_MountNeverPreventsLaunch ==
  /\ [](\A i \in Slots : OnlyLaunchOrVerifyFails(i))
  /\ PassedCheck(1) ~> CalledStart(1)

\* C14, the case: a call made inside mountR2Storage rejected, and the
\* invocation went on to startProcess.
C14_LaunchedAfterMountThrew ==
  \E i \in Slots : inv[i].mthrew /\ inv[i].r2 = "false" /\ CalledStart(i)

\* The sandbox calls of mountR2Storage in the order of the code.
MountOrder ==
  <<CmdMkdirMnt, CmdChmodMnt, "mountBucket", CmdMkdirSub, CmdLn1, CmdLn2>>

\* The calls an ensureMoltbotGateway made inside mountR2Storage (it makes
\* none of them elsewhere).
MountTrace(i) == SelectSeq(inv[i].log, LAMBDA c : c \in MountCalls)

IsPrefix(s, t) == Len(s) <= Len(t) /\ s = SubSeq(t, 1, Len(s))

\* The calls come in the fixed order; a rejected call is the last one and
\* gives false; the subdirectory and the links come after a mountBucket that
\* resolved, which stays in force; true is returned after all six calls.
MountOrderedStopsOnThrow(i) ==
  inv[i].op = "ensure" =>
    /\ IsPrefix(MountTrace(i), MountOrder)
    /\ inv[i].mthrew => inv[i].r2 = "false" /\ inv[i].pc \notin MountPcs
    /\ Len(MountTrace(i)) > 3 => fs.mounted
    /\ inv[i].r2 = "true" => MountTrace(i) = MountOrder /\ ~inv[i].mthrew

\* C15: the steps of mountR2Storage run in the fixed order, a step that
\* fails stops the sequence, and true is returned only if every step
\* succeeded.
C15_TrueOnlyIfEveryStepSucceeded ==
  \A i \in Slots :
    /\ MountOrderedStopsOnThrow(i)
    /\ inv[i].op = "ensure" /\ ~inv[i].mclean =>
         inv[i].pc \notin MountPcs /\ inv[i].r2 = "false"
    /\ inv[i].r2 = "true" => inv[i].mclean

\* C15 with a failed step read as a rejected call only.
C15_OrderedAndStopsOnThrow == \A i \in Slots : MountOrderedStopsOnThrow(i)

\* C16: syncToR2 runs the copy only when its mount query answered mounted or
\* its own call of mountR2Storage returned true, and after a query that
\* answered mounted it does not call mountR2Storage (no mountBucket).
C16_CopyOnlyWhenMounted ==
  \A i \in Slots :
    inv[i].op = "sync" =>
      /\ Count(inv[i].log, CmdRsync) > 0 =>
           inv[i].mq = "mounted" \/ inv[i].r2 = "true"
      /\ inv[i].mq = "mounted" =>
           /\ inv[i].r2 = "-"
           /\ inv[i].pc \notin MountPcs \cup {"m_enter"}
           /\ Count(inv[i].log, "mountBucket") = 0

\* C16, the case: the query answered mounted and the copy has run.
C16_CopiedWithoutRemount ==
  \E i \in Slots :
    /\ inv[i].op = "sync" /\ inv[i].mq = "mounted"
    /\ Count(inv[i].log, CmdRsync) = 1

\* The launch arguments carry the fixed entries and the working directory.
HasFixedLaunchSettings(a) ==
  /\ BaseEnv \subseteq a.env
  /\ a.workingDirectory = "/root/clawd"

\* C17: every call of startProcess by ensureMoltbotGateway, in either variant,
\* passes NODE_ENV=production, the restricted PATH and HOME in env and the
\* working directory /root/clawd, whatever the configuration and the mount.
C17_LaunchHasFixedSettings ==
  \A i \in Slots : \A a \in inv[i].start : HasFixedLaunchSettings(a)

\* C17 restricted to the later ensureMoltbotGateway.
C17_LaterLaunchHasFixedSettings ==
  \A i \in Slots :
    inv[i].op = "ensure" => \A a \in inv[i].start : HasFixedLaunchSettings(a)

\* C18: syncToR2 never raises: a rejected call of the mount query, of the
\* directory creation or of the copy gives a returned success=false; and a
\* returned outcome has success=true exactly when it has no error and has a
\* completion timestamp.
C18_SyncNeverRaises ==
  \A i \in Slots :
    inv[i].op = "sync" =>
      /\ ~inv[i].ret.threw
      /\ inv[i].caught => inv[i].pc = "done" /\ inv[i].ret.value = "false"
      /\ inv[i].pc = "done" =>
           /\ inv[i].ret.value \in {"true", "false"}
           /\ inv[i].ret.value = "true" <=>
                inv[i].ret.error = Undef /\ inv[i].ret.lastSync # Undef

\* C18, the case: the copy command rejected and syncToR2 has returned.
C18_CopyRejected ==
  \E i \in Slots :
    /\ inv[i].op = "sync" /\ inv[i].caught /\ inv[i].pc = "done"
    /\ Count(inv[i].log, CmdRsync) = 1

\* C19: a rejected listProcesses counts as "no gateway found". At Check, with
\* a gateway running, ensureMoltbotGateway does not return there but goes on to
\* mountR2Storage and startProcess; at Verify, with the launched gateway
\* running, ensureMoltbotGateway throws 'Gateway failed to start'.
C19_ListFailureMeansNotFound ==
  \A i \in Slots :
    inv[i].op = "ensure" =>
      /\ inv[i].chkThrew =>
           /\ inv[i].pc # "e_check"
           /\ inv[i].pc = "done" => Count(inv[i].log, "startProcess") = 1
      /\ inv[i].vfyThrew =>
           /\ inv[i].pc = "done"
           /\ inv[i].ret = Threw("Gateway failed to start")

\* C19, the case: listProcesses rejected at Check while a gateway was running
\* and again at Verify while the newly launched one was running.
C19_BothLookupsRejected ==
  \E i \in Slots :
    inv[i].op = "ensure" /\ inv[i].chkThrew /\ inv[i].vfyThrew

\* A gateway process of an earlier start that the registry still lists.
StaleStatuses == {"starting", "stopped", "failed"}
StaleProcess(st) ==
  [pid |-> 50, command |-> LauncherCommand, args |-> <<>>, status |-> st]

\* The later ensureMoltbotGateway, without a bucket binding, in a sandbox
\* whose registry lists a gateway process that is not running.
InitStale ==
  /\ cfg \in EphemeralConfigs
  /\ \E st \in StaleStatuses : procs = <<OtherProcess, StaleProcess(st)>>
  /\ fs = InitFs
  /\ inv = [i \in Slots |-> IdleInv]
  /\ calls = 0
  /\ launched = 0
  /\ lastMount = {}

StaleStep(i) ==
  \/ BeginEnsure(i)
  \/ EnsureCheck(i)
  \/ MountEnter(i)
  \/ EnsureStart(i)
  \/ EnsureVerify(i)

NextStale == StaleStep(1) \/ Environment

SpecStale == InitStale /\ [][NextStale]_vars

\* No entry of the registry is removed, and a status changes only in a step
\* in which no invocation moves.
RegistryKept ==
  /\ Len(procs') >= Len(procs)
  /\ \A k \in 1..Len(procs) :
       /\ procs'[k].pid = procs[k].pid
       /\ procs'[k].status # procs[k].status => inv' = inv

\* A Verify whose list has a non-running first match throws.
StaleFailsVerify ==
  \A i \in Slots :
    /\ inv[i].op = "ensure" /\ inv[i].pc = "e_verify"
    /\ inv'[i].pc # "e_verify"
    /\ FirstMatchNotRunning(procs)
    => inv'[i].ret = Threw("Gateway failed to start")

\* C20: when the first matching process of the list is not running at Check,
\* ensureMoltbotGateway goes on to startProcess and never stops or removes
\* the process it found; the lookup returns the first match of the list, so
\* with a non-running match listed before a running gateway Check does not
\* return and Verify throws.
C20_StaleMatchHidesRunning ==
  /\ [](\A i \in Slots :
          inv[i].op = "ensure" /\ inv[i].chkStale =>
            /\ inv[i].pc # "e_check"
            /\ inv[i].pc = "done" => Count(inv[i].log, "startProcess") = 1)
  /\ [][RegistryKept /\ StaleFailsVerify]_vars

\* C20, the case: Check's list resolved with a non-running match before a
\* running gateway, the invocation launched another process, Verify found the
\* non-running match and threw, and the gateway that ran at Check, a process
\* other than the launched one, still runs behind the non-running match.
C20_RunningIgnoredTwice ==
  \E i \in Slots :
    /\ inv[i].op = "ensure"
    /\ inv[i].chkStale /\ inv[i].chk.running /\ ~inv[i].chkThrew
    /\ inv[i].pc = "done" /\ inv[i].vfy \in StaleStatuses
    /\ inv[i].ret = Threw("Gateway failed to start")
    /\ FirstMatchNotRunning(procs)
    /\ \E k \in 1..Len(procs) :
         /\ IsMoltbot(procs[k]) /\ procs[k].status = "running"
         /\ procs[k].pid # inv[i].myPid

====
